---------------------------- MODULE Spec2Model ----------------------------
(* Model of aws-rdsportal-frontend/vite.config.ts: the configuration       *)
(* object the file exports, the path.resolve call that computes build.outDir*)
(* from __dirname, and the environment the file is loaded in (the process   *)
(* working directory, the environment variables, the file system around the *)
(* front-end project and the builds run with the exported configuration).   *)
(*                                                                          *)
(* An absolute POSIX path is the sequence of its segments: <<>> is "/",     *)
(* <<"home", "user">> is "/home/user".  A path argument of path.resolve is  *)
(* a record [abs, segs]: whether the string starts with "/", and the        *)
(* segments between its slashes.                                            *)
EXTENDS Naturals, Sequences, FiniteSets

VARIABLES
    dirname,    \* __dirname: the directory that holds vite.config.ts
    cwd,        \* process.cwd() of the tool that loads the file
    env,        \* the PORT environment variable of that process
    backend,    \* TRUE iff ../aws-rdsportal-backend exists on disk
    config,     \* the exported configuration object, NoConfig before a load
    nloads,     \* number of loads since the project tree was put in place
    first,      \* history: cwd, env and result of the first of those loads
    last,       \* history: cwd and env of the most recent of those loads
    outFiles,   \* files inside the output directory
    lastBuild,  \* history: the artifacts the most recent build wrote
    replaced,   \* history: files that were in the output directory before it
    prev        \* history: base directory and outDir before a relocation

vars == <<dirname, cwd, env, backend, config, nloads, first, last, outFiles,
          lastBuild, replaced, prev>>

-----------------------------------------------------------------------------
(* Bounds of the model *)

MaxPrefix == 2
MaxLayout == 2
MaxLoads == 2

FrontendName == "aws-rdsportal-frontend"
BackendName == "aws-rdsportal-backend"

PrefixNames == {"home", "user"}
LayoutNames == {"project", FrontendName, BackendName}

SeqsUpTo(S, n) == UNION {[1..k -> S] : k \in 0..n}

Prefixes == SeqsUpTo(PrefixNames, MaxPrefix)
Layouts == SeqsUpTo(LayoutNames, MaxLayout)

\* The directories the front-end project may be checked out in.
Dirs == {p \o r : p \in Prefixes, r \in Layouts}

EnvValues == {"unset", "3000"}
Hashes == {"a1", "b2"}
\* A file that is in the output directory before the first build.
StaleFiles == {"assets/index-00.js"}

NoConfig == [loaded |-> FALSE]
NoLoad == [loaded |-> FALSE]
NoPrev == [moved |-> FALSE]

-----------------------------------------------------------------------------
(* Sequence helpers *)

Last(s) == s[Len(s)]
Front(s) == SubSeq(s, 1, Len(s) - 1)
Drop(s, n) == SubSeq(s, n + 1, Len(s))
Suffix(s, k) == SubSeq(s, Len(s) - k + 1, Len(s))
IsPrefix(p, s) == Len(p) <= Len(s) /\ SubSeq(s, 1, Len(p)) = p
Min(a, b) == IF a <= b THEN a ELSE b

-----------------------------------------------------------------------------
(* path.resolve (POSIX) *)

\* One segment of normalizeString: "" and "." are dropped, ".." removes the
\* last kept segment (or is kept when the path may climb above its start,
\* and dropped at the root), any other segment is kept.
NormalizeSegmentIgnoreDotDot(res, seg, allowAboveRoot) ==
    IF seg = "" \/ seg = "." \/ seg = ".." THEN res ELSE Append(res, seg)

NormalizeSegment(res, seg, allowAboveRoot) ==
    IF seg = "" \/ seg = "."
    THEN res
    ELSE IF seg = ".."
         THEN IF res # <<>> /\ Last(res) # ".."
              THEN Front(res)
              ELSE IF allowAboveRoot THEN Append(res, "..") ELSE res
         ELSE Append(res, seg)

RECURSIVE NormalizeFrom(_, _, _, _)
NormalizeFrom(segs, i, res, allowAboveRoot) ==
    IF i > Len(segs)
    THEN res
    ELSE NormalizeFrom(segs, i + 1,
                       NormalizeSegment(res, segs[i], allowAboveRoot),
                       allowAboveRoot)

NormalizeString(segs, allowAboveRoot) ==
    NormalizeFrom(segs, 1, <<>>, allowAboveRoot)

\* The arguments are taken from the right until one is absolute; when none
\* is, the process working directory is put in front.
RECURSIVE ResolveFrom(_, _, _, _)
ResolveFrom(args, i, resolvedPath, wd) ==
    IF i = 0
    THEN wd \o resolvedPath
    ELSE IF args[i].abs
         THEN args[i].segs \o resolvedPath
         ELSE ResolveFrom(args, i - 1, args[i].segs \o resolvedPath, wd)

PathResolve(args, wd) ==
    NormalizeString(ResolveFrom(args, Len(args), <<>>, wd), FALSE)

\* The string of an absolute path.
RECURSIVE PathString(_)
PathString(segs) ==
    IF segs = <<>>
    THEN "/"
    ELSE IF Len(segs) = 1
         THEN "/" \o segs[1]
         ELSE PathString(Front(segs)) \o "/" \o Last(segs)

-----------------------------------------------------------------------------
(* vite.config.ts *)

\* vue(): the plugin descriptor of @vitejs/plugin-vue.
vue == [name |-> "vite:vue"]

pluginsNone == <<>>

plugins == <<vue>>

\* The directory the relative path is resolved against.
BaseDirCwd == [abs |-> TRUE, segs |-> cwd]

BaseDir == [abs |-> TRUE, segs |-> dirname]

\* '../aws-rdsportal-backend/app/frontend'
RelativeOutDirNoParent ==
    [abs |-> FALSE, segs |-> <<".", BackendName, "app", "frontend">>]

RelativeOutDirAbsolute ==
    [abs |-> TRUE, segs |-> <<BackendName, "app", "frontend">>]

RelativeOutDir ==
    [abs |-> FALSE, segs |-> <<"..", BackendName, "app", "frontend">>]

outDir == PathResolve(<<BaseDir, RelativeOutDir>>, cwd)

emptyOutDirOff == FALSE

emptyOutDir == TRUE

portFromEnv == IF env = "unset" THEN 8080 ELSE 3000

port == 8080

hostFromEnv == env = "unset"

host == TRUE

\* The object passed to defineConfig, which returns it as it is.
defineConfig ==
    [loaded |-> TRUE,
     plugins |-> plugins,
     build |-> [outDir |-> outDir, emptyOutDir |-> emptyOutDir],
     server |-> [port |-> port, host |-> host]]

-----------------------------------------------------------------------------
(* The environment of the file *)

Parent(d) == IF d = <<>> THEN <<>> ELSE Front(d)

\* Where the tool may be started: in the front-end project, in the directory
\* above it, or at the root of the file system.
CwdChoices(d) == {d, Parent(d), <<>>}

Artifacts(h) == {"index.html", "assets/index-" \o h \o ".js"}

Init ==
    /\ dirname \in Dirs
    /\ cwd \in CwdChoices(dirname)
    /\ env \in EnvValues
    /\ backend \in BOOLEAN
    /\ config = NoConfig
    /\ nloads = 0
    /\ first = NoLoad
    /\ last = NoLoad
    /\ outFiles = StaleFiles
    /\ lastBuild = {}
    /\ replaced = {}
    /\ prev = NoPrev

\* The tool evaluates vite.config.ts.
LoadConfigChecked ==
    /\ nloads < MaxLoads
    /\ config' = IF backend THEN defineConfig ELSE NoConfig
    /\ nloads' = nloads + 1
    /\ last' = [loaded |-> TRUE, cwd |-> cwd, env |-> env]
    /\ first' = IF nloads = 0
                THEN [loaded |-> TRUE, cwd |-> cwd, env |-> env, config |-> config']
                ELSE first
    /\ UNCHANGED <<dirname, cwd, env, backend, outFiles, lastBuild, replaced, prev>>

LoadConfig ==
    /\ nloads < MaxLoads
    /\ config' = defineConfig
    /\ nloads' = nloads + 1
    /\ last' = [loaded |-> TRUE, cwd |-> cwd, env |-> env]
    /\ first' = IF nloads = 0
                THEN [loaded |-> TRUE, cwd |-> cwd, env |-> env, config |-> config']
                ELSE first
    /\ UNCHANGED <<dirname, cwd, env, backend, outFiles, lastBuild, replaced, prev>>

\* The tool is started from another directory.
Chdir(d) ==
    /\ d # cwd
    /\ cwd' = d
    /\ UNCHANGED <<dirname, env, backend, config, nloads, first, last, outFiles,
                   lastBuild, replaced, prev>>

\* The tool is started with another environment.
SetEnv(v) ==
    /\ v # env
    /\ env' = v
    /\ UNCHANGED <<dirname, cwd, backend, config, nloads, first, last, outFiles,
                   lastBuild, replaced, prev>>

\* The build collaborator runs with the loaded configuration: it creates the
\* output directory when it is missing, deletes what is in it when
\* build.emptyOutDir is set, and writes the artifacts of this build.
Build(h) ==
    /\ config.loaded
    /\ outFiles' = IF config.build.emptyOutDir
                   THEN Artifacts(h)
                   ELSE outFiles \cup Artifacts(h)
    /\ lastBuild' = Artifacts(h)
    /\ replaced' = outFiles
    /\ backend' = TRUE
    /\ UNCHANGED <<dirname, cwd, env, config, nloads, first, last, prev>>

\* The project tree is put under another prefix: the last k segments of the
\* base directory are kept, the segments before them are replaced by p.
Relocate(p, k) ==
    /\ config.loaded
    /\ k <= Len(dirname)
    /\ Len(p) + k <= MaxPrefix + MaxLayout
    /\ p \o Suffix(dirname, k) # dirname
    /\ dirname' = p \o Suffix(dirname, k)
    /\ cwd' = dirname'
    /\ prev' = [moved |-> TRUE, dirname |-> dirname, outDir |-> config.build.outDir]
    /\ config' = NoConfig
    /\ nloads' = 0
    /\ first' = NoLoad
    /\ last' = NoLoad
    /\ UNCHANGED <<env, backend, outFiles, lastBuild, replaced>>

Next ==
    \/ LoadConfig
    \/ \E d \in CwdChoices(dirname) : Chdir(d)
    \/ \E v \in EnvValues : SetEnv(v)
    \/ \E h \in Hashes : Build(h)

Spec == Init /\ [][Next]_vars

NextRelocate ==
    \/ LoadConfig
    \/ \E p \in Prefixes, k \in 0..(MaxPrefix + MaxLayout) : Relocate(p, k)

SpecRelocate == Init /\ [][NextRelocate]_vars

-----------------------------------------------------------------------------
(* Properties *)

\* The normalized absolute path of d/../aws-rdsportal-backend/app/frontend.
SiblingAssetDir(d) == Parent(d) \o <<BackendName, "app", "frontend">>

ExampleDir == <<"home", "user", "project", FrontendName>>
ExampleOutDir == "/home/user/project/aws-rdsportal-backend/app/frontend"

\* C1 as stated: whatever the working directory D of the load is, the output
\* directory is the normalized D/../aws-rdsportal-backend/app/frontend.
C1_OutDirFromAnyWorkingDir ==
    config.loaded => config.build.outDir = SiblingAssetDir(last.cwd)

\* C1 amended: when the working directory D of the load is the directory of
\* the configuration file, the output directory is the normalized
\* D/../aws-rdsportal-backend/app/frontend; for
\* D = /home/user/project/aws-rdsportal-frontend it is
\* /home/user/project/aws-rdsportal-backend/app/frontend.
C1_OutDirFromProjectDir ==
    (config.loaded /\ last.cwd = dirname) =>
        /\ config.build.outDir = SiblingAssetDir(last.cwd)
        /\ last.cwd = ExampleDir =>
               PathString(config.build.outDir) = ExampleOutDir

C1_Witness ==
    /\ config.loaded
    /\ last.cwd = dirname
    /\ last.cwd = ExampleDir
    /\ PathString(config.build.outDir) = ExampleOutDir

\* C2: the output directory is the normalized
\* C/../aws-rdsportal-backend/app/frontend of the configuration file's
\* directory C, whatever working directory the file was loaded in.
C2_OutDirFromConfigDir ==
    config.loaded => config.build.outDir = SiblingAssetDir(dirname)

C2_Witness ==
    /\ config.loaded
    /\ last.cwd # dirname
    /\ SiblingAssetDir(last.cwd) # SiblingAssetDir(dirname)
    /\ config.build.outDir = SiblingAssetDir(dirname)

\* C3 as stated: a load made while the sibling backend project does not exist
\* produces no configuration object.
C3_FailsWithoutSibling ==
    (nloads > 0 /\ ~backend) => ~config.loaded

\* C3 amended: every load produces a configuration object, whether or not the
\* sibling backend project exists; no load fails.
C3_LoadNeverFails ==
    nloads > 0 => /\ config.loaded
                  /\ config.build.outDir = SiblingAssetDir(dirname)

C3_Witness ==
    /\ nloads > 0
    /\ ~backend
    /\ config.loaded
    /\ dirname = <<>>

\* C4 as stated: for every base directory the output directory is neither the
\* front-end project directory nor beneath it, and it is
\* aws-rdsportal-backend/app/frontend under the parent of the front-end
\* project.
C4_AlwaysOutsideFrontend ==
    config.loaded =>
        /\ ~IsPrefix(dirname, config.build.outDir)
        /\ IsPrefix(Append(Parent(dirname), BackendName), config.build.outDir)
        /\ Suffix(config.build.outDir, 3) = <<BackendName, "app", "frontend">>

\* C4 amended: the output directory is aws-rdsportal-backend/app/frontend
\* under the parent of the base directory; and when the base directory is not
\* the file system root and is not itself named aws-rdsportal-backend, the
\* output directory is neither the base directory nor beneath it.
C4_OutsideFrontend ==
    config.loaded =>
        /\ IsPrefix(Append(Parent(dirname), BackendName), config.build.outDir)
        /\ Suffix(config.build.outDir, 3) = <<BackendName, "app", "frontend">>
        /\ (dirname # <<>> /\ Last(dirname) # BackendName) =>
               ~IsPrefix(dirname, config.build.outDir)

C4_Witness ==
    /\ config.loaded
    /\ dirname = <<"home", "project", FrontendName>>
    /\ ~IsPrefix(dirname, config.build.outDir)
    /\ config.build.outDir = <<"home", "project", BackendName, "app", "frontend">>

\* C5: every configuration object has server port 8080 and the network
\* exposure switched on, whatever working directory and environment it was
\* loaded in.
C5_ServerFixed ==
    config.loaded => (config.server.port = 8080 /\ config.server.host = TRUE)

C5_Witness ==
    /\ config.loaded
    /\ last.env = "3000"
    /\ last.cwd # dirname
    /\ config.server.port = 8080
    /\ config.server.host = TRUE

\* C6: every configuration object has the output directory emptied before a
\* build.
C6_EmptyOutDirSet ==
    config.loaded => config.build.emptyOutDir = TRUE

C6_Witness ==
    /\ config.loaded
    /\ config.build.emptyOutDir = TRUE
    /\ last.env = "3000"
    /\ last.cwd = <<>>
    /\ dirname # <<>>

\* C7: every configuration object has exactly one plugin, the Vue
\* single-file-component plugin descriptor.
C7_OnePlugin ==
    config.loaded =>
        (Len(config.plugins) = 1 /\ config.plugins[1].name = "vite:vue")

C7_Witness ==
    /\ config.loaded
    /\ Len(config.plugins) = 1
    /\ config.plugins[1].name = "vite:vue"
    /\ last.env = "unset"
    /\ last.cwd = Parent(dirname)
    /\ dirname # <<>>

\* A load changes nothing a load reads.
LoadReadsUnchanged ==
    nloads' = nloads + 1 => UNCHANGED <<dirname, cwd, env>>

\* Two loads made in the same working directory gave the same object.
SameCwdSameConfig ==
    (nloads >= 2 /\ first.cwd = last.cwd) => first.config = config

\* C8: two loads from the same working directory yield identical
\* configuration objects, and a load changes nothing that a later load reads.
C8_Deterministic ==
    [] SameCwdSameConfig /\ [][LoadReadsUnchanged]_vars

C8_Witness ==
    /\ nloads >= 2
    /\ first.cwd = last.cwd
    /\ first.env # last.env
    /\ first.config = config

\* C9: when two base directories P1/R and P2/R share a non-empty relative
\* layout R, the two output directories are P1/S and P2/S for one suffix S.
C9_PrefixPreserving ==
    (prev.moved /\ config.loaded) =>
        \A k \in 1..Min(Len(prev.dirname), Len(dirname)) :
            Suffix(prev.dirname, k) = Suffix(dirname, k) =>
                LET n1 == Len(prev.dirname) - k
                    n2 == Len(dirname) - k
                    P1 == SubSeq(prev.dirname, 1, n1)
                    P2 == SubSeq(dirname, 1, n2)
                IN  /\ IsPrefix(P1, prev.outDir)
                    /\ IsPrefix(P2, config.build.outDir)
                    /\ Drop(prev.outDir, n1) = Drop(config.build.outDir, n2)

C9_Witness ==
    /\ prev.moved
    /\ config.loaded
    /\ prev.dirname = <<"home", "project", FrontendName>>
    /\ dirname = <<"user", "user", "project", FrontendName>>
    /\ prev.outDir = <<"home", "project", BackendName, "app", "frontend">>
    /\ config.build.outDir =
           <<"user", "user", "project", BackendName, "app", "frontend">>

\* C10: after every build the output directory holds exactly the artifacts of
\* the most recent build.
C10_OnlyLatestArtifacts ==
    lastBuild # {} => outFiles = lastBuild

C10_Witness ==
    /\ lastBuild # {}
    /\ replaced # StaleFiles
    /\ replaced \ lastBuild # {}
    /\ outFiles = lastBuild

=============================================================================
